---- MODULE Spec2Model ----
(***************************************************************************)
(* Finance tracker: the IndexedDB store (db.ts), the currency conversion   *)
(* service, the dashboard's aggregation pass and the import/export         *)
(* handlers of DataManagement.                                             *)
(*                                                                         *)
(* Numbers are exact rationals <<n, d>> (d > 0, lowest terms): the code's  *)
(* IEEE doubles are not modelled bit for bit.  A Date is its time value    *)
(* (an integer); an ISO-8601 string is the record [iso |-> t].  An absent  *)
(* value (null / undefined) is <<>> and a present one is <<v>>.  Record    *)
(* keys (string ids in the code) are positive integers in key order; key 0 *)
(* stands for a record that has no id property.  Display-only component   *)
(* state (progress bars, the rate-history table, form fields) is left out. *)
(***************************************************************************)
EXTENDS Integers, Sequences, FiniteSets, TLC

\* ------------------------------------------------------------------ bounds
\* Wall-clock readings (new Date()) are drawn from 0..MaxTime.
MaxTime == 1
\* Ids that uuidv4() hands to records created through the forms.
MaxNewId == 2

Times == 0..MaxTime

\* ------------------------------------------------------------ option values
None == <<>>
Some(v) == <<v>>
IsSome(o) == o # <<>>
Get(o) == o[1]

\* -------------------------------------------------------------- JS numbers
Abs(n) == IF n < 0 THEN -n ELSE n

RECURSIVE GCD(_, _)
GCD(a, b) == IF b = 0 THEN a ELSE GCD(b, a % b)

\* n/d in lowest terms with a positive denominator (d # 0).
Norm(n, d) ==
    LET g == GCD(Abs(n), Abs(d))
        s == IF d < 0 THEN -1 ELSE 1
    IN  <<(s * n) \div g, (s * d) \div g>>

Num(n) == <<n, 1>>
Plus(a, b) == Norm(a[1] * b[2] + b[1] * a[2], a[2] * b[2])
Minus(a, b) == Norm(a[1] * b[2] - b[1] * a[2], a[2] * b[2])
Times2(a, b) == Norm(a[1] * b[1], a[2] * b[2])
Over(a, b) == Norm(a[1] * b[2], a[2] * b[1])
Truthy(a) == a # <<>> /\ a[1] # 0

\* ------------------------------------------------------------------- dates
\* Date.prototype.toISOString and new Date(isoString).
toISOString(t) == [iso |-> t]
NewDate(s) == s.iso

\* ------------------------------------------------------------ data records
USD == "USD"
UAH == "UAH"

\* db.ts, onupgradeneeded: the five default categories.
defaultCategories ==
    { [id |-> 1, name |-> "Housing", color |-> "#FF5733"],
      [id |-> 2, name |-> "Food", color |-> "#33FF57"],
      [id |-> 3, name |-> "Transportation", color |-> "#3357FF"],
      [id |-> 4, name |-> "Entertainment", color |-> "#F033FF"],
      [id |-> 5, name |-> "Utilities", color |-> "#FF9F33"] }

\* db.ts, onupgradeneeded: 1 USD = 38.5 UAH, dated at the upgrade.
defaultRate(now) == [id |-> 1, date |-> toISOString(now), rate |-> <<77, 2>>]

\* No read is awaiting its continuation.
noAwaited == [load |-> None, charts |-> None]

noSettings ==
    [income |-> None, incomeCurrency |-> None, defaultCurrency |-> None,
     incomeMonthStart |-> None, previousIncomeMonthStart |-> None]

\* ---------------------------------------------------------------- variables
VARIABLES
    \* IndexedDB "FinanceTrackerDB" and the module-level handle of db.ts
    dbVersion, db, dbExpenses, dbCategories, dbExchangeRates, dbSettings,
    \* FinanceTracker's React state
    initPc, isDBInitialized, income, expenses, categories, defaultCurrency,
    incomeCurrency, exchangeRate, incomeMonthStart, totalExpenses,
    remainingBalance, calcPending,
    \* DataManagement: dialog state, sessionStorage "importData", the
    \* downloaded export file
    showImportDialog, importError, importData, download,
    \* IncomeMonthManager's React state, and its handler that has stored the
    \* previous start and not yet the new one
    immMounted, immIncomeMonthStart, immPreviousIncomeMonthStart, immPending,
    \* the updateCalculations run that has published its total and not yet its
    \* balance: the values its closure captured
    pass,
    \* reads whose continuation has not run yet: IncomeMonthManager's initial
    \* load that found no start; the default currency that
    \* ExpenseChartsExpenses.refreshData read and is about to store
    awaited,
    \* the last aggregation pass: what it read and which expenses it counted
    lastPass,
    \* the last convertCurrency call made by the display layer
    lastConvert,
    \* the last handler that ran (observation only)
    lastOp

storeVars == <<dbVersion, db, dbExpenses, dbCategories, dbExchangeRates, dbSettings>>
uiVars == <<initPc, isDBInitialized, income, expenses, categories, defaultCurrency,
            incomeCurrency, exchangeRate, incomeMonthStart, totalExpenses,
            remainingBalance, calcPending>>
dmVars == <<showImportDialog, importError, importData, download>>
immVars == <<immMounted, immIncomeMonthStart, immPreviousIncomeMonthStart, immPending>>
vars == <<storeVars, uiVars, dmVars, immVars, pass, awaited, lastPass, lastConvert, lastOp>>

\* --------------------------------------------------------- store: getters
\* The records of an object store in key order (IDBObjectStore.getAll): the
\* record at position i has i - 1 records with smaller keys before it.
getAll(S) ==
    [i \in 1..Cardinality(S) |->
        CHOOSE x \in S : Cardinality({y \in S : y.id < x.id}) = i - 1]

Range(s) == {s[i] : i \in 1..Len(s)}

\* The position of s[i] once s is sorted newest first by a stable sort: after
\* every later-dated record and every equally dated record that precedes it.
rankByDateDesc(s, i) ==
    Cardinality({j \in 1..Len(s) :
                    \/ NewDate(s[j].date) > NewDate(s[i].date)
                    \/ NewDate(s[j].date) = NewDate(s[i].date) /\ j < i}) + 1

\* Array.prototype.sort((a, b) => new Date(b.date) - new Date(a.date)):
\* a stable sort, newest first.
sortByDateDesc(s) ==
    [k \in 1..Len(s) |-> s[CHOOSE i \in 1..Len(s) : rankByDateDesc(s, i) = k]]

\* getExpenses: old expenses without a currency read as USD.
getExpenses ==
    LET all == getAll(dbExpenses)
    IN  [i \in 1..Len(all) |->
            IF all[i].currency = "" THEN [all[i] EXCEPT !.currency = USD] ELSE all[i]]

getCategories == getAll(dbCategories)

getAllExchangeRates == sortByDateDesc(getAll(dbExchangeRates))

\* getLatestExchangeRate with the sort left out: the first record in key order.
getLatestExchangeRateUnsorted ==
    IF db = "null"
    THEN [rejected |-> TRUE, result |-> None]
    ELSE [rejected |-> FALSE,
          result |-> IF Len(getAll(dbExchangeRates)) > 0
                     THEN Some(getAll(dbExchangeRates)[1])
                     ELSE None]

\* getLatestExchangeRate: rejects without a database handle; resolves null
\* when the store is empty, else the first record of the store sorted
\* newest first.
getLatestExchangeRate ==
    IF db = "null"
    THEN [rejected |-> TRUE, result |-> None]
    ELSE [rejected |-> FALSE,
          result |-> IF Len(getAll(dbExchangeRates)) > 0
                     THEN Some(sortByDateDesc(getAll(dbExchangeRates))[1])
                     ELSE None]

getIncome == dbSettings.income
getIncomeCurrency == IF IsSome(dbSettings.incomeCurrency) THEN Get(dbSettings.incomeCurrency) ELSE USD
getDefaultCurrency == IF IsSome(dbSettings.defaultCurrency) THEN Get(dbSettings.defaultCurrency) ELSE USD
getIncomeMonthStart == dbSettings.incomeMonthStart
getPreviousIncomeMonthStart == dbSettings.previousIncomeMonthStart

\* ------------------------------------------- currency conversion, mutated
\* convertCurrency fetching the rate before it compares the currencies.
convertCurrencyLookupFirst(amount, fromCurrency, toCurrency) ==
    LET rate == getLatestExchangeRate
    IN  IF rate.rejected
        THEN [status |-> "error", value |-> None,
              error |-> "Database not initialized", lookups |-> 1]
        ELSE IF fromCurrency = toCurrency
        THEN [status |-> "ok", value |-> Some(amount), error |-> "", lookups |-> 1]
        ELSE IF ~IsSome(rate.result)
        THEN [status |-> "error", value |-> None,
              error |-> "Exchange rate not available", lookups |-> 1]
        ELSE IF fromCurrency = USD /\ toCurrency = UAH
        THEN [status |-> "ok", value |-> Some(Times2(amount, Get(rate.result).rate)),
              error |-> "", lookups |-> 1]
        ELSE IF fromCurrency = UAH /\ toCurrency = USD
        THEN [status |-> "ok", value |-> Some(Over(amount, Get(rate.result).rate)),
              error |-> "", lookups |-> 1]
        ELSE [status |-> "ok", value |-> Some(amount), error |-> "", lookups |-> 1]

\* convertCurrency passing the amount through when no rate is stored.
convertCurrencyNoRateCheck(amount, fromCurrency, toCurrency) ==
    IF fromCurrency = toCurrency
    THEN [status |-> "ok", value |-> Some(amount), error |-> "", lookups |-> 0]
    ELSE LET rate == getLatestExchangeRate
         IN  IF rate.rejected
             THEN [status |-> "error", value |-> None,
                   error |-> "Database not initialized", lookups |-> 1]
             ELSE IF ~IsSome(rate.result)
             THEN [status |-> "ok", value |-> Some(amount), error |-> "", lookups |-> 1]
             ELSE IF fromCurrency = USD /\ toCurrency = UAH
             THEN [status |-> "ok", value |-> Some(Times2(amount, Get(rate.result).rate)),
                   error |-> "", lookups |-> 1]
             ELSE IF fromCurrency = UAH /\ toCurrency = USD
             THEN [status |-> "ok", value |-> Some(Over(amount, Get(rate.result).rate)),
                   error |-> "", lookups |-> 1]
             ELSE [status |-> "ok", value |-> Some(amount), error |-> "", lookups |-> 1]

\* convertCurrency with the two directions exchanged.
convertCurrencySwapped(amount, fromCurrency, toCurrency) ==
    IF fromCurrency = toCurrency
    THEN [status |-> "ok", value |-> Some(amount), error |-> "", lookups |-> 0]
    ELSE LET rate == getLatestExchangeRate
         IN  IF rate.rejected
             THEN [status |-> "error", value |-> None,
                   error |-> "Database not initialized", lookups |-> 1]
             ELSE IF ~IsSome(rate.result)
             THEN [status |-> "error", value |-> None,
                   error |-> "Exchange rate not available", lookups |-> 1]
             ELSE IF fromCurrency = USD /\ toCurrency = UAH
             THEN [status |-> "ok", value |-> Some(Over(amount, Get(rate.result).rate)),
                   error |-> "", lookups |-> 1]
             ELSE IF fromCurrency = UAH /\ toCurrency = USD
             THEN [status |-> "ok", value |-> Some(Times2(amount, Get(rate.result).rate)),
                   error |-> "", lookups |-> 1]
             ELSE [status |-> "ok", value |-> Some(amount), error |-> "", lookups |-> 1]

\* convertCurrency multiplying by the rate in both directions.
convertCurrencyMultiplying(amount, fromCurrency, toCurrency) ==
    IF fromCurrency = toCurrency
    THEN [status |-> "ok", value |-> Some(amount), error |-> "", lookups |-> 0]
    ELSE LET rate == getLatestExchangeRate
         IN  IF rate.rejected
             THEN [status |-> "error", value |-> None,
                   error |-> "Database not initialized", lookups |-> 1]
             ELSE IF ~IsSome(rate.result)
             THEN [status |-> "error", value |-> None,
                   error |-> "Exchange rate not available", lookups |-> 1]
             ELSE IF (fromCurrency = USD /\ toCurrency = UAH) \/ (fromCurrency = UAH /\ toCurrency = USD)
             THEN [status |-> "ok", value |-> Some(Times2(amount, Get(rate.result).rate)),
                   error |-> "", lookups |-> 1]
             ELSE [status |-> "ok", value |-> Some(amount), error |-> "", lookups |-> 1]

\* ------------------------------------------------------ currency conversion
\* convertCurrency: the outcome of the promise (status "ok" with a value, or
\* "error" with the message thrown) and the number of exchange-rate lookups
\* it made.
convertCurrency(amount, fromCurrency, toCurrency) ==
    IF fromCurrency = toCurrency
    THEN [status |-> "ok", value |-> Some(amount), error |-> "", lookups |-> 0]
    ELSE LET rate == getLatestExchangeRate
         IN  IF rate.rejected
             THEN [status |-> "error", value |-> None,
                   error |-> "Database not initialized", lookups |-> 1]
             ELSE IF ~IsSome(rate.result)
             THEN [status |-> "error", value |-> None,
                   error |-> "Exchange rate not available", lookups |-> 1]
             ELSE IF fromCurrency = USD /\ toCurrency = UAH
             THEN [status |-> "ok", value |-> Some(Times2(amount, Get(rate.result).rate)),
                   error |-> "", lookups |-> 1]
             ELSE IF fromCurrency = UAH /\ toCurrency = USD
             THEN [status |-> "ok", value |-> Some(Over(amount, Get(rate.result).rate)),
                   error |-> "", lookups |-> 1]
             \* console.error("Unsupported currency conversion"); return amount
             ELSE [status |-> "ok", value |-> Some(amount), error |-> "", lookups |-> 1]

\* --------------------------------------------------------- store: writers
\* IDBObjectStore.add: fails when the record has no key (DataError) or the
\* key is already stored (ConstraintError).
canAdd(S, r) == r.id # 0 /\ \A x \in S : x.id # r.id
\* IDBObjectStore.delete of every record of a list.
deleteAll(S, list) == {x \in S : \A i \in 1..Len(list) : list[i].id # x.id}

\* ------------------------------------------------------ store: operations
\* The guard every exported store function starts with:
\* if (!db) { reject(new Error("Database not initialized")); return }
notInitializedUnchecked == FALSE
notInitialized == db = "null"

\* The four object stores as one value, and a promise's outcome: rejected
\* with an Error, or resolved after the request left the stores as given.
stored ==
    [expenses |-> dbExpenses, categories |-> dbCategories,
     exchangeRates |-> dbExchangeRates, settings |-> dbSettings]
rejects(message) == [rejected |-> TRUE, error |-> message, stored |-> stored]
resolves(s) == [rejected |-> FALSE, error |-> "", stored |-> s]
\* IDBObjectStore.put: the record replaces the one stored under its key.
put(S, r) == {x \in S : x.id # r.id} \cup {r}

\* Every getter: a readonly transaction.
get ==
    IF notInitialized THEN rejects("Database not initialized") ELSE resolves(stored)
addExpense(expense) ==
    IF notInitialized THEN rejects("Database not initialized")
    ELSE IF canAdd(dbExpenses, expense)
    THEN resolves([stored EXCEPT !.expenses = @ \cup {expense}])
    ELSE rejects("Could not add expense")
updateExpense(expense) ==
    IF notInitialized THEN rejects("Database not initialized")
    ELSE resolves([stored EXCEPT !.expenses = put(@, expense)])
deleteExpense(id) ==
    IF notInitialized THEN rejects("Database not initialized")
    ELSE resolves([stored EXCEPT !.expenses = {x \in @ : x.id # id}])
addCategory(category) ==
    IF notInitialized THEN rejects("Database not initialized")
    ELSE IF canAdd(dbCategories, category)
    THEN resolves([stored EXCEPT !.categories = @ \cup {category}])
    ELSE rejects("Could not add category")
updateCategory(category) ==
    IF notInitialized THEN rejects("Database not initialized")
    ELSE resolves([stored EXCEPT !.categories = put(@, category)])
\* deleteCategory with a delete of the expenses of the category added.
deleteCategoryCascading(id) ==
    IF notInitialized THEN rejects("Database not initialized")
    ELSE resolves([stored EXCEPT !.categories = {x \in @ : x.id # id},
                                 !.expenses = {x \in @ : x.categoryId # id}])
deleteCategory(id) ==
    IF notInitialized THEN rejects("Database not initialized")
    ELSE resolves([stored EXCEPT !.categories = {x \in @ : x.id # id}])
addExchangeRate(rate) ==
    IF notInitialized THEN rejects("Database not initialized")
    ELSE IF canAdd(dbExchangeRates, rate)
    THEN resolves([stored EXCEPT !.exchangeRates = @ \cup {rate}])
    ELSE rejects("Could not add exchange rate")
deleteExchangeRateById(id) ==
    IF notInitialized THEN rejects("Database not initialized")
    ELSE resolves([stored EXCEPT !.exchangeRates = {x \in @ : x.id # id}])
setIncome(newIncome) ==
    IF notInitialized THEN rejects("Database not initialized")
    ELSE resolves([stored EXCEPT !.settings.income = Some(newIncome)])
setIncomeCurrency(currency) ==
    IF notInitialized THEN rejects("Database not initialized")
    ELSE resolves([stored EXCEPT !.settings.incomeCurrency = Some(currency)])
setDefaultCurrency(currency) ==
    IF notInitialized THEN rejects("Database not initialized")
    ELSE resolves([stored EXCEPT !.settings.defaultCurrency = Some(currency)])
setIncomeMonthStart(date) ==
    IF notInitialized THEN rejects("Database not initialized")
    ELSE resolves([stored EXCEPT !.settings.incomeMonthStart = Some(date)])
setPreviousIncomeMonthStart(date) ==
    IF notInitialized THEN rejects("Database not initialized")
    ELSE resolves([stored EXCEPT !.settings.previousIncomeMonthStart = Some(date)])

\* The request leaves the object stores as its outcome says.
settles(outcome) ==
    /\ dbExpenses' = outcome.stored.expenses
    /\ dbCategories' = outcome.stored.categories
    /\ dbExchangeRates' = outcome.stored.exchangeRates
    /\ dbSettings' = outcome.stored.settings
    /\ UNCHANGED <<dbVersion, db>>

\* ------------------------------------------------- aggregation (dashboard)
\* The period filter with a strict comparison.
inPeriodStrict(expense, start) == IsSome(start) /\ NewDate(expense.date) > Get(start)

\* calculateTotalExpenses, line 188: the period filter.
inPeriod(expense, start) == IsSome(start) /\ NewDate(expense.date) >= Get(start)

\* The loop without its try/catch: the conversion that throws ends it, and
\* the expenses after the failing one are not added.
RECURSIVE totalLoopThrows(_, _, _, _)
totalLoopThrows(exps, i, defCur, start) ==
    IF i > Len(exps) THEN [total |-> Num(0), included |-> {}]
    ELSE LET rest == totalLoopThrows(exps, i + 1, defCur, start)
             e == exps[i]
         IN  IF inPeriod(e, start)
             THEN IF e.currency = defCur
                  THEN [total |-> Plus(e.amount, rest.total),
                        included |-> rest.included \cup {i}]
                  ELSE LET c == convertCurrency(e.amount, e.currency, defCur)
                       IN  [total |-> IF c.status = "ok"
                                      THEN Plus(Get(c.value), rest.total)
                                      ELSE Num(0),
                            included |-> rest.included \cup {i}]
             ELSE rest

\* calculateTotalExpenses: the loop over the expenses state; a failed
\* conversion is logged and adds nothing.  Returns the total and the
\* positions of the expenses that passed the period filter.
RECURSIVE totalLoop(_, _, _, _)
totalLoop(exps, i, defCur, start) ==
    IF i > Len(exps) THEN [total |-> Num(0), included |-> {}]
    ELSE LET rest == totalLoop(exps, i + 1, defCur, start)
             e == exps[i]
         IN  IF inPeriod(e, start)
             THEN IF e.currency = defCur
                  THEN [total |-> Plus(e.amount, rest.total),
                        included |-> rest.included \cup {i}]
                  ELSE LET c == convertCurrency(e.amount, e.currency, defCur)
                       IN  [total |-> IF c.status = "ok"
                                      THEN Plus(Get(c.value), rest.total)
                                      ELSE rest.total,
                            included |-> rest.included \cup {i}]
             ELSE rest

\* calculateTotalExpenses and calculateRemainingBalance are closures of one
\* render r: they read the expenses, income, currencies and period start of
\* that render, and the rates the store holds when they run.
calculateTotalExpenses(r) ==
    totalLoop(r.expenses, 1, r.defaultCurrency, r.incomeMonthStart).total

\* The income in the default currency without the fallback: a conversion
\* that throws leaves no income to subtract from.
incomeInDefaultCurrencyNoFallback(r) ==
    LET c == convertCurrency(r.income, r.incomeCurrency, r.defaultCurrency)
    IN  IF r.incomeCurrency = r.defaultCurrency THEN r.income
        ELSE IF c.status = "ok" THEN Get(c.value) ELSE Num(0)

\* Lines 211-218: the income in the default currency; the raw income when the
\* currencies are equal or the conversion throws.
incomeInDefaultCurrency(r) ==
    LET c == convertCurrency(r.income, r.incomeCurrency, r.defaultCurrency)
    IN  IF r.incomeCurrency # r.defaultCurrency /\ c.status = "ok" THEN Get(c.value)
        ELSE r.income

\* calculateRemainingBalance: computes the total itself (line 208), then
\* subtracts it from the income in the default currency.
calculateRemainingBalance(r) ==
    Minus(incomeInDefaultCurrency(r), calculateTotalExpenses(r))

\* ExpenseList: the Period badge of a row.
periodBadge(expense, currentIncomeMonthStart) ==
    IF IsSome(currentIncomeMonthStart) /\ NewDate(expense.date) >= Get(currentIncomeMonthStart)
    THEN "Current" ELSE "Previous"

\* ------------------------------------------------------------ input domains
\* Wall-clock months are MonthLength time units long.
MonthLength == 2
\* new Date(today.getFullYear(), today.getMonth(), 1)
firstDayOfMonth(today) == (today \div MonthLength) * MonthLength

NewIds == 11..(10 + MaxNewId)
Currencies == {USD, UAH}
\* Codes a caller may hand to convertCurrency (its parameters are strings).
CurrencyCodes == {USD, UAH, "EUR"}
FormAmounts == {Num(10)}
ConvertAmounts == {Num(100), <<5, 2>>}

\* uuidv4(): an id no stored record has.
uuidv4(S) == CHOOSE n \in NewIds : (\A x \in S : x.id # n) /\ \A m \in NewIds : m < n => \E x \in S : x.id = m
hasFreeId(S) == \E n \in NewIds : \A x \in S : x.id # n

\* What the last handler was, whether it ended normally, the file it worked
\* on (or the storage fault it met) and the toast it raised.
opDone(name, ok, content, toastTitle) ==
    [op |-> name, ok |-> ok, content |-> content, toast |-> toastTitle]
noOp(name) == opDone(name, TRUE, None, "")

\* A handler returns: lastOp describes it, and the observations of an earlier
\* pass or convertCurrency call are dropped.
ends(name, ok, content, toastTitle) ==
    /\ lastOp' = opDone(name, ok, content, toastTitle)
    /\ lastPass' = None
    /\ lastConvert' = None
    /\ UNCHANGED <<pass, awaited>>

\* ----------------------------------------------------------------- initial
Init ==
    /\ dbVersion = 0 /\ db = "null"
    /\ dbExpenses = {} /\ dbCategories = {} /\ dbExchangeRates = {}
    /\ dbSettings = noSettings
    /\ initPc = "initDB" /\ isDBInitialized = FALSE
    /\ income = Num(0) /\ expenses = <<>> /\ categories = <<>>
    /\ defaultCurrency = USD /\ incomeCurrency = USD
    /\ exchangeRate = None /\ incomeMonthStart = None
    /\ totalExpenses = Num(0) /\ remainingBalance = Num(0)
    /\ calcPending = TRUE
    /\ showImportDialog = FALSE /\ importError = None /\ importData = None
    /\ download = None
    /\ immMounted = FALSE /\ immIncomeMonthStart = None /\ immPreviousIncomeMonthStart = None
    /\ immPending = None
    /\ pass = None
    /\ awaited = noAwaited
    /\ lastPass = None
    /\ lastConvert = None
    /\ lastOp = noOp("mount")

\* ------------------------------------------------- FinanceTracker.initialize
\* initDB: indexedDB.open("FinanceTrackerDB", 2); onupgradeneeded creates the
\* stores and seeds the defaults for the versions the database lacks.
initDB ==
    /\ initPc = "initDB"
    /\ \E now \in Times :
        /\ dbCategories' = IF dbVersion < 1 THEN dbCategories \cup defaultCategories
                           ELSE dbCategories
        /\ dbSettings' = IF dbVersion < 2
                         THEN [dbSettings EXCEPT !.defaultCurrency = Some(USD)]
                         ELSE dbSettings
        /\ dbExchangeRates' = IF dbVersion < 2 THEN dbExchangeRates \cup {defaultRate(now)}
                              ELSE dbExchangeRates
    /\ dbVersion' = 2
    /\ db' = "open"
    /\ initPc' = "setIsDBInitialized"
    /\ ends("initDB", TRUE, None, "")
    /\ UNCHANGED <<dbExpenses, isDBInitialized, income, expenses, categories, defaultCurrency,
                   incomeCurrency, exchangeRate, incomeMonthStart, totalExpenses,
                   remainingBalance, calcPending, dmVars, immVars>>

\* One resumption of initialize after an await: pc -> next.
initStep(pc, next) ==
    /\ initPc = pc
    /\ initPc' = next
    /\ ends("initialize", TRUE, None, "")
    /\ UNCHANGED <<storeVars, totalExpenses, remainingBalance, dmVars, immVars>>

initSetIsDBInitialized ==
    /\ initStep("setIsDBInitialized", "getIncome")
    /\ isDBInitialized' = TRUE
    /\ calcPending' = TRUE
    /\ UNCHANGED <<income, expenses, categories, defaultCurrency, incomeCurrency,
                   exchangeRate, incomeMonthStart>>

initGetIncome ==
    /\ initStep("getIncome", "getExpenses")
    /\ income' = IF IsSome(getIncome) /\ Truthy(Get(getIncome)) THEN Get(getIncome) ELSE Num(0)
    /\ calcPending' = (calcPending \/ income' # income)
    /\ UNCHANGED <<isDBInitialized, expenses, categories, defaultCurrency, incomeCurrency,
                   exchangeRate, incomeMonthStart>>

initGetExpenses ==
    /\ initStep("getExpenses", "getCategories")
    /\ expenses' = getExpenses
    /\ calcPending' = TRUE
    /\ UNCHANGED <<isDBInitialized, income, categories, defaultCurrency, incomeCurrency,
                   exchangeRate, incomeMonthStart>>

initGetCategories ==
    /\ initStep("getCategories", "getDefaultCurrency")
    /\ categories' = getCategories
    /\ UNCHANGED <<isDBInitialized, income, expenses, defaultCurrency, incomeCurrency,
                   exchangeRate, incomeMonthStart, calcPending>>

initGetDefaultCurrency ==
    /\ initStep("getDefaultCurrency", "getIncomeCurrency")
    /\ defaultCurrency' = getDefaultCurrency
    /\ calcPending' = (calcPending \/ defaultCurrency' # defaultCurrency)
    /\ UNCHANGED <<isDBInitialized, income, expenses, categories, incomeCurrency,
                   exchangeRate, incomeMonthStart>>

initGetIncomeCurrency ==
    /\ initStep("getIncomeCurrency", "getLatestExchangeRate")
    /\ incomeCurrency' = getIncomeCurrency
    /\ calcPending' = (calcPending \/ incomeCurrency' # incomeCurrency)
    /\ UNCHANGED <<isDBInitialized, income, expenses, categories, defaultCurrency,
                   exchangeRate, incomeMonthStart>>

initGetLatestExchangeRate ==
    /\ initStep("getLatestExchangeRate", "getIncomeMonthStart")
    /\ exchangeRate' = getLatestExchangeRate.result
    /\ calcPending' = TRUE
    /\ UNCHANGED <<isDBInitialized, income, expenses, categories, defaultCurrency,
                   incomeCurrency, incomeMonthStart>>

\* Lines 119-128: the saved start, or the first day of the current month.
\* The setIncomeMonthStart called on line 127 is the React state setter
\* declared on line 73 (db.ts's setIncomeMonthStart is not imported): the
\* store is not written.
initGetIncomeMonthStart ==
    /\ initStep("getIncomeMonthStart", "done")
    /\ \E today \in Times :
        incomeMonthStart' = IF IsSome(getIncomeMonthStart)
                            THEN Some(NewDate(Get(getIncomeMonthStart)))
                            ELSE Some(firstDayOfMonth(today))
    /\ calcPending' = TRUE
    /\ UNCHANGED <<isDBInitialized, income, expenses, categories, defaultCurrency,
                   incomeCurrency, exchangeRate>>

\* refreshData: reloads the React state from the store as the handler that
\* calls it has left it.
refreshData ==
    /\ expenses' = getExpenses'
    /\ categories' = getCategories'
    /\ exchangeRate' = getLatestExchangeRate'.result
    /\ defaultCurrency' = getDefaultCurrency'
    /\ incomeCurrency' = getIncomeCurrency'
    /\ incomeMonthStart' = IF IsSome(getIncomeMonthStart')
                           THEN Some(NewDate(Get(getIncomeMonthStart')))
                           ELSE incomeMonthStart
    /\ calcPending' = TRUE
    /\ UNCHANGED <<initPc, isDBInitialized, income, totalExpenses, remainingBalance>>

\* ------------------------------------------------------------- export files
\* The text of a file: "" (an empty file), "not json", or "json" with the
\* four top-level fields of the parsed value.  For the three collections
\* None says that the field is missing or is not an array; for settings None
\* says that the field is missing or falsy, and the value carries isObject:
\* whether the JSON value is an object.
fileOf(jsonFile, text, e, c, r, st) ==
    [jsonFile |-> jsonFile, text |-> text, expenses |-> e, categories |-> c,
     exchangeRates |-> r, settings |-> st]

\* prepareDataForExport: JSON.stringify of the ExportData object.
prepareDataForExport(exps, cats, rates, inc, incCur, defCur, start, prevStart) ==
    fileOf(TRUE, "json", Some(exps), Some(cats), Some(rates),
           Some([isObject |-> TRUE,
                 income |-> inc, incomeCurrency |-> incCur, defaultCurrency |-> defCur,
                 incomeMonthStart |-> start, previousIncomeMonthStart |-> prevStart]))

\* parseImportedData with the test of the categories field left out.
parseImportedDataNoCategoriesCheck(content) ==
    IF content.text # "json" THEN None
    ELSE IF ~IsSome(content.expenses) THEN None
    ELSE IF ~IsSome(content.exchangeRates) THEN None
    ELSE IF ~IsSome(content.settings) THEN None
    ELSE Some(content)

\* parseImportedData: the parsed document, or null when the text is not JSON
\* or a top-level field fails its check.
parseImportedData(content) ==
    IF content.text # "json" THEN None
    ELSE IF ~IsSome(content.expenses) THEN None
    ELSE IF ~IsSome(content.categories) THEN None
    ELSE IF ~IsSome(content.exchangeRates) THEN None
    ELSE IF ~IsSome(content.settings) THEN None
    ELSE Some(content)

catTravel == [id |-> 7, name |-> "Travel", color |-> "#000000"]
catHealth == [id |-> 8, name |-> "Health", color |-> "#FFFFFF"]
rateOld == [id |-> 21, date |-> toISOString(0), rate |-> Num(41)]
rateNew == [id |-> 22, date |-> toISOString(1), rate |-> Num(42)]
expTaxi == [id |-> 31, amount |-> Num(10), description |-> "Taxi", categoryId |-> 7,
            date |-> toISOString(1), currency |-> UAH]
expPills == [id |-> 32, amount |-> Num(20), description |-> "Pills", categoryId |-> 8,
             date |-> toISOString(0), currency |-> USD]
settingsFull ==
    [isObject |-> TRUE, income |-> Num(1000), incomeCurrency |-> UAH, defaultCurrency |-> UAH,
     incomeMonthStart |-> Some(toISOString(1)),
     previousIncomeMonthStart |-> Some(toISOString(0))]
settingsNoPeriod ==
    [isObject |-> TRUE, income |-> Num(500), incomeCurrency |-> USD, defaultCurrency |-> USD,
     incomeMonthStart |-> None, previousIncomeMonthStart |-> None]
\* "settings": "none" -- a JSON string.  Reading a property of a string
\* gives undefined: no number, no currency code, no date.
undefined == <<>>
settingsText ==
    [isObject |-> FALSE, income |-> undefined, incomeCurrency |-> "undefined",
     defaultCurrency |-> "undefined",
     incomeMonthStart |-> None, previousIncomeMonthStart |-> None]
\* A rate without an id: store.add rejects it (DataError).
rateNoId == [id |-> 0, date |-> toISOString(1), rate |-> Num(43)]

\* The files the user may pick in the file input.
Files ==
    { fileOf(FALSE, "not json", None, None, None, None),
      fileOf(TRUE, "", None, None, None, None),
      fileOf(TRUE, "not json", None, None, None, None),
      fileOf(TRUE, "json", Some(<<>>), None, Some(<<>>), Some(settingsFull)),
      fileOf(TRUE, "json", Some(<<>>), Some(<<>>), Some(<<>>), None),
      fileOf(TRUE, "json", Some(<<>>), Some(<<>>), Some(<<>>), Some(settingsNoPeriod)),
      fileOf(TRUE, "json", Some(<<expTaxi, expPills>>), Some(<<catTravel, catHealth>>),
             Some(<<rateNew, rateOld>>), Some(settingsFull)) }

\* A rate below zero.
rateNegative == [id |-> 23, date |-> toISOString(1), rate |-> Num(-5)]

\* Files that were written or edited by hand: the settings are a JSON string;
\* the only rate is negative; the only rate has no id; a document as the
\* export writes it.
HandEditedFiles ==
    { fileOf(TRUE, "json", Some(<<>>), Some(<<>>), Some(<<>>), Some(settingsText)),
      fileOf(TRUE, "json", Some(<<>>), Some(<<>>), Some(<<rateNegative>>),
             Some(settingsNoPeriod)),
      fileOf(TRUE, "json", Some(<<expTaxi>>), Some(<<catTravel, catHealth>>),
             Some(<<rateNoId>>), Some(settingsFull)),
      fileOf(TRUE, "json", Some(<<expTaxi>>), Some(<<catTravel>>), Some(<<rateNew>>),
             Some(settingsNoPeriod)) }

invalidFormatMessage == "The file format is invalid. Please select a valid export file."

\* ------------------------------------------------------------ DataManagement
\* handleExport: reads the whole store and downloads it as one JSON file.
handleExport ==
    /\ isDBInitialized
    /\ download' = Some(prepareDataForExport(
                       getExpenses, getCategories, getAllExchangeRates,
                       IF IsSome(getIncome) /\ Truthy(Get(getIncome)) THEN Get(getIncome) ELSE Num(0),
                       getIncomeCurrency, getDefaultCurrency,
                       getIncomeMonthStart, getPreviousIncomeMonthStart))
    /\ ends("handleExport", TRUE, None, "Export successful")
    /\ UNCHANGED <<storeVars, uiVars, showImportDialog, importError, importData, immVars>>

\* handleFileSelect(file) with the FileReader's onload: a file that parses is
\* kept in sessionStorage for handleImport; one that does not is reported.
fileSelected(file) ==
    /\  IF ~file.jsonFile
        THEN /\ ends("handleFileSelect", FALSE, Some(file), "Invalid file type")
             /\ UNCHANGED <<showImportDialog, importError, importData>>
        ELSE IF file.text = ""
        THEN /\ ends("handleFileSelect", FALSE, Some(file), "Error reading file")
             /\ UNCHANGED <<showImportDialog, importError, importData>>
        ELSE /\ showImportDialog' = TRUE
             /\ IF ~IsSome(parseImportedData(file))
                THEN /\ importError' = Some(invalidFormatMessage)
                     /\ importData' = importData
                     /\ ends("handleFileSelect", FALSE, Some(file), "")
                ELSE /\ importError' = None
                     /\ importData' = Some(file)
                     /\ ends("handleFileSelect", TRUE, Some(file), "")
    /\ UNCHANGED <<storeVars, uiVars, download, immVars>>

\* The user picks one of the sample files or the file downloaded last.
handleFileSelect ==
    /\ isDBInitialized
    /\ \E file \in Files \cup Range(download) : fileSelected(file)

\* The user picks a hand-edited file.
handleFileSelectHandEdited ==
    /\ isDBInitialized
    /\ \E file \in HandEditedFiles : fileSelected(file)

\* One collection's loop of handleImport.  Each turn reads the collection,
\* issues a delete for every record read and then adds the imported record;
\* IndexedDB runs the transactions in the order they were created, so the
\* deletes are done when the add runs.  The deletes are not awaited: one
\* whose request fails (the ids in stuck) leaves its record in the store and
\* rejects a promise that nothing handles.  A failed add throws out of the
\* loop.
RECURSIVE importLoop(_, _, _, _)
importLoop(S, list, i, stuck) ==
    IF i > Len(list) THEN [ok |-> TRUE, store |-> S]
    ELSE LET cleared == deleteAll(S, getAll(S)) \cup {x \in S : x.id \in stuck}
         IN  IF canAdd(cleared, list[i])
             THEN importLoop(cleared \cup {list[i]}, list, i + 1, stuck)
             ELSE [ok |-> FALSE, store |-> cleared]

importCollection(S, field, stuck) ==
    IF ~IsSome(field) THEN [ok |-> FALSE, store |-> S] ELSE importLoop(S, Get(field), 1, stuck)

\* The settings writes of handleImport (lines 359-369).
importSettings(st) ==
    [dbSettings EXCEPT
        !.income = Some(st.income),
        !.incomeCurrency = Some(st.incomeCurrency),
        !.defaultCurrency = Some(st.defaultCurrency),
        !.incomeMonthStart = IF IsSome(st.incomeMonthStart) THEN st.incomeMonthStart ELSE @,
        !.previousIncomeMonthStart =
            IF IsSome(st.previousIncomeMonthStart) THEN st.previousIncomeMonthStart ELSE @]

\* The outcome of an import that restores the store when it fails.
importOutcomeRestored(ok, error, st, cats, rates, exps) ==
    IF ok
    THEN [ok |-> ok, error |-> error, settings |-> st, categories |-> cats,
          exchangeRates |-> rates, expenses |-> exps]
    ELSE [ok |-> ok, error |-> error, settings |-> dbSettings, categories |-> dbCategories,
          exchangeRates |-> dbExchangeRates, expenses |-> dbExpenses]

\* What handleImport leaves behind: whether its try block ended normally, the
\* error it threw, and the four stores.
importOutcome(ok, error, st, cats, rates, exps) ==
    [ok |-> ok, error |-> error, settings |-> st, categories |-> cats,
     exchangeRates |-> rates, expenses |-> exps]

\* The ids of one object store among the failing deletes.
stuckIn(stuck, store) == {k.id : k \in {j \in stuck : j.store = store}}

\* The body of handleImport's try block: what the store holds when it ends
\* and whether it ended normally.  stuck: the deletes whose request fails.
importRun(content, stuck) ==
    LET untouched(msg) ==
            importOutcome(FALSE, msg, dbSettings, dbCategories, dbExchangeRates, dbExpenses)
    IN  IF ~IsSome(content) THEN untouched("Import failed: No import data found")
        ELSE IF ~IsSome(parseImportedData(Get(content)))
        THEN untouched("Import failed: Invalid import data")
        ELSE LET data == Get(parseImportedData(Get(content)))
             IN  IF ~IsSome(data.settings) THEN untouched("Import failed: TypeError")
                 ELSE LET st == importSettings(Get(data.settings))
                          c == importCollection(dbCategories, data.categories,
                                                stuckIn(stuck, "categories"))
                          r == importCollection(dbExchangeRates, data.exchangeRates,
                                                stuckIn(stuck, "exchangeRates"))
                          e == importCollection(dbExpenses, data.expenses,
                                                stuckIn(stuck, "expenses"))
                      IN  IF ~c.ok
                          THEN importOutcome(FALSE, "Import failed: categories", st,
                                             c.store, dbExchangeRates, dbExpenses)
                          ELSE IF ~r.ok
                          THEN importOutcome(FALSE, "Import failed: exchange rates", st,
                                             c.store, r.store, dbExpenses)
                          ELSE IF ~e.ok
                          THEN importOutcome(FALSE, "Import failed: expenses", st,
                                             c.store, r.store, e.store)
                          ELSE importOutcome(TRUE, "", st, c.store, r.store, e.store)

\* handleImport, run while the delete requests for the ids in stuck fail;
\* fault is what is to be remembered of them.
importing(stuck, fault) ==
    /\ LET run == importRun(importData, stuck)
       IN  /\ dbSettings' = run.settings
           /\ dbCategories' = run.categories
           /\ dbExchangeRates' = run.exchangeRates
           /\ dbExpenses' = run.expenses
           /\ UNCHANGED <<dbVersion, db>>
           /\ IF run.ok
              THEN /\ importData' = None
                   /\ showImportDialog' = FALSE
                   /\ importError' = importError
                   /\ refreshData
                   /\ ends("handleImport", TRUE, fault, "Import successful")
              ELSE /\ importError' = Some(run.error)
                   /\ UNCHANGED <<importData, showImportDialog, uiVars>>
                   /\ ends("handleImport", FALSE, fault, "Import failed")
    /\ UNCHANGED <<download, immVars>>

\* handleImport: the dialog's Import button (enabled while the dialog shows
\* no error); every storage request succeeds unless the record is refused.
handleImport ==
    /\ isDBInitialized
    /\ showImportDialog /\ ~IsSome(importError)
    /\ importing({}, None)

\* The deletes that the import of document d issues: the loop of a
\* collection with something to add deletes every record stored in it.
deletedBy(d) ==
    (IF IsSome(d.categories) /\ Len(Get(d.categories)) > 0
     THEN {[store |-> "categories", id |-> x.id] : x \in dbCategories} ELSE {})
    \cup (IF IsSome(d.exchangeRates) /\ Len(Get(d.exchangeRates)) > 0
          THEN {[store |-> "exchangeRates", id |-> x.id] : x \in dbExchangeRates} ELSE {})
    \cup (IF IsSome(d.expenses) /\ Len(Get(d.expenses)) > 0
          THEN {[store |-> "expenses", id |-> x.id] : x \in dbExpenses} ELSE {})

\* handleImport while the delete request for one stored record fails
\* (request.onerror of deleteCategory, deleteExchangeRate or deleteExpense).
handleImportDeleteRejected ==
    /\ isDBInitialized
    /\ showImportDialog /\ ~IsSome(importError)
    /\ IsSome(importData)
    /\ \E k \in deletedBy(Get(importData)) :
        importing({k}, Some([deleteRejected |-> k]))

\* The exported file is carried to a browser profile that has never run the
\* application: no database, a newly mounted page, an empty sessionStorage.
openFreshProfile ==
    /\ IsSome(download)
    /\ dbVersion' = 0 /\ db' = "null"
    /\ dbExpenses' = {} /\ dbCategories' = {} /\ dbExchangeRates' = {}
    /\ dbSettings' = noSettings
    /\ initPc' = "initDB" /\ isDBInitialized' = FALSE
    /\ income' = Num(0) /\ expenses' = <<>> /\ categories' = <<>>
    /\ defaultCurrency' = USD /\ incomeCurrency' = USD
    /\ exchangeRate' = None /\ incomeMonthStart' = None
    /\ totalExpenses' = Num(0) /\ remainingBalance' = Num(0)
    /\ calcPending' = TRUE
    /\ showImportDialog' = FALSE /\ importError' = None /\ importData' = None
    /\ immMounted' = FALSE /\ immIncomeMonthStart' = None /\ immPreviousIncomeMonthStart' = None
    /\ immPending' = None
    /\ pass' = None /\ lastPass' = None /\ lastConvert' = None
    /\ awaited' = noAwaited
    /\ lastOp' = noOp("mount")
    /\ UNCHANGED download

\* --------------------------------------------------------------- ExpenseForm
\* handleSubmit with the required fields filled in: stores the new expense
\* and refreshes the dashboard (onExpenseAdded).
handleSubmit ==
    /\ isDBInitialized
    /\ hasFreeId(dbExpenses)
    /\ \E amount \in FormAmounts, date \in Times, currency \in Currencies :
        LET newExpense == [id |-> uuidv4(dbExpenses), amount |-> amount,
                           description |-> "Lunch", categoryId |-> 2,
                           date |-> toISOString(date), currency |-> currency]
        IN  dbExpenses' = dbExpenses \cup {newExpense}
    /\ UNCHANGED <<dbVersion, db, dbCategories, dbExchangeRates, dbSettings>>
    /\ refreshData
    /\ ends("handleSubmit", TRUE, None, "Expense added")
    /\ UNCHANGED <<showImportDialog, importError, importData, download, immVars>>

\* ---------------------------------------------------------- CurrencySettings
\* What the user may type in the rate input: the text is empty, is not a
\* number, or is the number num.
RateInputs ==
    { [text |-> "", num |-> None], [text |-> "abc", num |-> None],
      [text |-> "0", num |-> Some(Num(0))], [text |-> "-5", num |-> Some(Num(-5))],
      [text |-> "40", num |-> Some(Num(40))] }

\* Line 68: !newExchangeRate || isNaN(Number(newExchangeRate)) || Number(newExchangeRate) <= 0
rateInputRejected(newExchangeRate) ==
    \/ newExchangeRate.text = ""
    \/ ~IsSome(newExchangeRate.num)
    \/ Get(newExchangeRate.num)[1] <= 0

\* handleExchangeRateUpdate: validates the input, appends a rate dated now
\* and refreshes the dashboard (onSettingsChanged).
handleExchangeRateUpdate ==
    /\ isDBInitialized
    /\ hasFreeId(dbExchangeRates)
    /\ \E newExchangeRate \in RateInputs, now \in Times :
        IF rateInputRejected(newExchangeRate)
        THEN /\ ends("handleExchangeRateUpdate", FALSE, None, "Invalid exchange rate")
             /\ UNCHANGED <<storeVars, uiVars>>
        ELSE /\ dbExchangeRates' = dbExchangeRates \cup
                    {[id |-> uuidv4(dbExchangeRates), date |-> toISOString(now),
                      rate |-> Get(newExchangeRate.num)]}
             /\ UNCHANGED <<dbVersion, db, dbExpenses, dbCategories, dbSettings>>
             /\ refreshData
             /\ ends("handleExchangeRateUpdate", TRUE, None, "Exchange rate updated")
    /\ UNCHANGED <<showImportDialog, importError, importData, download, immVars>>

\* deleteExchangeRate(id), called on an open database: deleting a key that is
\* not stored succeeds and changes nothing.
deleteExchangeRate ==
    /\ db = "open"
    /\ \E id \in {r.id : r \in dbExchangeRates} \cup NewIds :
        dbExchangeRates' = {r \in dbExchangeRates : r.id # id}
    /\ ends("deleteExchangeRate", TRUE, None, "")
    /\ UNCHANGED <<dbVersion, db, dbExpenses, dbCategories, dbSettings, uiVars, dmVars, immVars>>

\* FinanceTracker.handleCurrencyChange: the header's currency select.
handleCurrencyChange ==
    /\ isDBInitialized
    /\ \E newCurrency \in Currencies :
        dbSettings' = [dbSettings EXCEPT !.defaultCurrency = Some(newCurrency)]
    /\ UNCHANGED <<dbVersion, db, dbExpenses, dbCategories, dbExchangeRates>>
    /\ refreshData
    /\ ends("handleCurrencyChange", TRUE, None, "Currency updated")
    /\ UNCHANGED <<showImportDialog, importError, importData, download, immVars>>

\* --------------------------------------------------------- IncomeMonthManager
\* loadIncomeMonthData: runs when the settings tab mounts the component; a
\* missing start becomes the first day of the current month and is stored.
loadIncomeMonthData ==
    /\ isDBInitialized
    /\ ~immMounted
    /\ immMounted' = TRUE
    /\ \E today \in Times :
        IF IsSome(getIncomeMonthStart)
        THEN /\ immIncomeMonthStart' = Some(NewDate(Get(getIncomeMonthStart)))
             /\ dbSettings' = dbSettings
        ELSE /\ immIncomeMonthStart' = Some(firstDayOfMonth(today))
             /\ dbSettings' = [dbSettings EXCEPT
                                  !.incomeMonthStart = Some(toISOString(firstDayOfMonth(today)))]
    /\ immPreviousIncomeMonthStart' =
           IF IsSome(getPreviousIncomeMonthStart)
           THEN Some(NewDate(Get(getPreviousIncomeMonthStart)))
           ELSE immPreviousIncomeMonthStart
    /\ ends("loadIncomeMonthData", TRUE, None, "")
    /\ UNCHANGED <<dbVersion, db, dbExpenses, dbCategories, dbExchangeRates, uiVars, dmVars,
                   immPending>>

\* The first half of the rollover without its write to the store: only the
\* component remembers the previous start.
rolloverPreviousUnstored(name, date) ==
    /\ immPending = None
    /\ immPreviousIncomeMonthStart' =
           IF IsSome(immIncomeMonthStart) THEN immIncomeMonthStart
           ELSE immPreviousIncomeMonthStart
    /\ immPending' = Some([op |-> name, date |-> date])
    /\ ends("setPreviousIncomeMonthStart", TRUE, None, "")
    /\ UNCHANGED <<storeVars, uiVars, dmVars, immMounted, immIncomeMonthStart>>

\* Lines 58-61 and 94-97, shared by handleStartNewIncomeMonth and
\* handleDateSelect: the component's current start is stored as the previous
\* one in a transaction of its own.  date is the day picked in the calendar
\* (None for handleStartNewIncomeMonth, which takes the time afterwards).
rolloverPrevious(name, date) ==
    /\ immPending = None
    /\ dbSettings' = [dbSettings EXCEPT
           !.previousIncomeMonthStart =
               IF IsSome(immIncomeMonthStart)
               THEN Some(toISOString(Get(immIncomeMonthStart))) ELSE @]
    /\ immPreviousIncomeMonthStart' =
           IF IsSome(immIncomeMonthStart) THEN immIncomeMonthStart
           ELSE immPreviousIncomeMonthStart
    /\ immPending' = Some([op |-> name, date |-> date])
    /\ ends("setPreviousIncomeMonthStart", TRUE, None, "")
    /\ UNCHANGED <<dbVersion, db, dbExpenses, dbCategories, dbExchangeRates, uiVars,
                   dmVars, immMounted, immIncomeMonthStart>>

\* handleStartNewIncomeMonth up to line 61.
handleStartNewIncomeMonth ==
    /\ isDBInitialized /\ immMounted
    /\ rolloverPrevious("handleStartNewIncomeMonth", None)

\* handleDateSelect up to line 97: the calendar shown beside the current
\* start.
handleDateSelect ==
    /\ isDBInitialized /\ immMounted /\ IsSome(immIncomeMonthStart)
    /\ \E date \in Times : rolloverPrevious("handleDateSelect", Some(date))

\* Lines 64-74 and 100-109: the new start (today, or the picked day) is
\* stored in a second transaction, and the dashboard is refreshed
\* (onIncomeMonthChanged).
rolloverCurrent ==
    /\ IsSome(immPending)
    /\ \E today \in Times :
        LET newStart == IF IsSome(Get(immPending).date) THEN Get(Get(immPending).date)
                        ELSE today
        IN  /\ dbSettings' = [dbSettings EXCEPT
                   !.incomeMonthStart = Some(toISOString(newStart))]
            /\ immIncomeMonthStart' = Some(newStart)
    /\ immPending' = None
    /\ UNCHANGED <<dbVersion, db, dbExpenses, dbCategories, dbExchangeRates,
                   immMounted, immPreviousIncomeMonthStart>>
    /\ refreshData
    /\ ends(Get(immPending).op, TRUE, None,
            IF Get(immPending).op = "handleDateSelect" THEN "Income month start date updated"
            ELSE "New income month started")
    /\ UNCHANGED <<showImportDialog, importError, importData, download>>

\* loadIncomeMonthData up to its first await: getIncomeMonthStart is
\* requested, and no start is stored.
loadIncomeMonthDataRead ==
    /\ isDBInitialized
    /\ ~immMounted
    /\ ~IsSome(getIncomeMonthStart)
    /\ immMounted' = TRUE
    /\ awaited' = [awaited EXCEPT !.load = Some(getIncomeMonthStart)]
    /\ lastOp' = noOp("getIncomeMonthStart")
    /\ lastPass' = None /\ lastConvert' = None
    /\ UNCHANGED <<storeVars, uiVars, dmVars, immIncomeMonthStart,
                   immPreviousIncomeMonthStart, immPending, pass>>

\* loadIncomeMonthData from line 33, the read having resolved null: the first
\* day of the month is shown and stored, then the previous start is loaded.
loadIncomeMonthDataDefault ==
    /\ IsSome(awaited.load)
    /\ \E today \in Times :
        /\ immIncomeMonthStart' = Some(firstDayOfMonth(today))
        /\ dbSettings' = [dbSettings EXCEPT
                             !.incomeMonthStart = Some(toISOString(firstDayOfMonth(today)))]
    /\ immPreviousIncomeMonthStart' =
           IF IsSome(getPreviousIncomeMonthStart)
           THEN Some(NewDate(Get(getPreviousIncomeMonthStart)))
           ELSE immPreviousIncomeMonthStart
    /\ awaited' = [awaited EXCEPT !.load = None]
    /\ lastOp' = noOp("loadIncomeMonthData")
    /\ lastPass' = None /\ lastConvert' = None
    /\ UNCHANGED <<dbVersion, db, dbExpenses, dbCategories, dbExchangeRates, uiVars, dmVars,
                   immMounted, immPending, pass>>

\* The catch block of both handlers (lines 75-81, 110-116): an error toast;
\* nothing that was written is undone.
rolloverCatch(name) ==
    /\ immPending' = None
    /\ ends(name, FALSE, None, "Error")
    /\ UNCHANGED <<storeVars, uiVars, dmVars, immMounted, immIncomeMonthStart,
                   immPreviousIncomeMonthStart>>

\* The put of setPreviousIncomeMonthStart fails (request.onerror, db.ts line
\* 658): either handler goes to its catch block with nothing written.
rolloverPreviousRejected ==
    /\ isDBInitialized /\ immMounted /\ IsSome(immIncomeMonthStart)
    /\ immPending = None
    /\ \E name \in {"handleStartNewIncomeMonth", "handleDateSelect"} : rolloverCatch(name)

\* The put of setIncomeMonthStart fails (db.ts line 608) after the previous
\* start has been stored.
rolloverCurrentRejected ==
    /\ IsSome(immPending)
    /\ rolloverCatch(Get(immPending).op)

\* ------------------------------------------------------ ExpenseChartsExpenses
\* refreshData up to the read of line 186: getDefaultCurrency is requested
\* for the argument of setDefaultCurrency.
refreshDataRead ==
    /\ isDBInitialized
    /\ awaited.charts = None
    /\ awaited' = [awaited EXCEPT !.charts = Some(getDefaultCurrency)]
    /\ lastOp' = noOp("getDefaultCurrency")
    /\ lastPass' = None /\ lastConvert' = None
    /\ UNCHANGED <<storeVars, uiVars, dmVars, immVars, pass>>

\* refreshData from line 186, the read having resolved: the value is handed
\* to db.ts's setDefaultCurrency, which stores it.
refreshDataWrite ==
    /\ IsSome(awaited.charts)
    /\ settles(setDefaultCurrency(Get(awaited.charts)))
    /\ awaited' = [awaited EXCEPT !.charts = None]
    /\ lastOp' = noOp("ExpenseChartsExpenses.refreshData")
    /\ lastPass' = None /\ lastConvert' = None
    /\ UNCHANGED <<uiVars, dmVars, immVars, pass>>

\* ------------------------------------------------------- the dashboard pass
\* The values of the render whose effect runs updateCalculations.
render ==
    [expenses |-> expenses, income |-> income, defaultCurrency |-> defaultCurrency,
     incomeCurrency |-> incomeCurrency, incomeMonthStart |-> incomeMonthStart]

\* What a finished pass of render r leaves to be observed.
passDone(r) ==
    Some([included |-> totalLoop(r.expenses, 1, r.defaultCurrency, r.incomeMonthStart).included,
          render |-> r])

\* updateCalculations: the effect that runs when one of its dependencies has
\* changed; computes the total, then the balance.  Here no other handler
\* runs between its awaits.
updateCalculations ==
    /\ calcPending /\ pass = None
    /\ calcPending' = FALSE
    /\ IF isDBInitialized
       THEN /\ totalExpenses' = calculateTotalExpenses(render)
            /\ remainingBalance' = calculateRemainingBalance(render)
            /\ lastPass' = passDone(render)
       ELSE UNCHANGED <<totalExpenses, remainingBalance, lastPass>>
    /\ lastOp' = noOp("updateCalculations")
    /\ lastConvert' = None
    /\ UNCHANGED <<pass, awaited>>
    /\ UNCHANGED <<storeVars, initPc, isDBInitialized, income, expenses, categories,
                   defaultCurrency, incomeCurrency, exchangeRate, incomeMonthStart, dmVars, immVars>>

\* updateCalculations up to line 237: the total of the render is computed
\* against the store and published; the balance is still to come.
updateCalculationsTotal ==
    /\ calcPending /\ pass = None
    /\ isDBInitialized
    /\ calcPending' = FALSE
    /\ totalExpenses' = calculateTotalExpenses(render)
    /\ pass' = Some(render)
    /\ UNCHANGED awaited
    /\ lastOp' = noOp("updateCalculationsTotal")
    /\ lastPass' = None
    /\ lastConvert' = None
    /\ UNCHANGED <<storeVars, initPc, isDBInitialized, income, expenses, categories,
                   defaultCurrency, incomeCurrency, exchangeRate, incomeMonthStart,
                   remainingBalance, dmVars, immVars>>

\* updateCalculations from line 239: calculateRemainingBalance runs in the
\* same closure against the store as it is now, and its result is published.
updateCalculationsBalance ==
    /\ IsSome(pass)
    /\ remainingBalance' = calculateRemainingBalance(Get(pass))
    /\ pass' = None
    /\ UNCHANGED awaited
    /\ lastPass' = passDone(Get(pass))
    /\ lastOp' = noOp("updateCalculationsBalance")
    /\ lastConvert' = None
    /\ UNCHANGED <<storeVars, initPc, isDBInitialized, income, expenses, categories,
                   defaultCurrency, incomeCurrency, exchangeRate, incomeMonthStart,
                   totalExpenses, calcPending, dmVars, immVars>>

\* The exchange-rate lookups (IndexedDB requests, each awaited before the
\* next is made) of calculateTotalExpenses, of calculateRemainingBalance and
\* of a whole updateCalculations run for render r.
lookupsOfTotal(r) ==
    Cardinality({i \in 1..Len(r.expenses) :
                    /\ inPeriod(r.expenses[i], r.incomeMonthStart)
                    /\ r.expenses[i].currency # r.defaultCurrency})
lookupsOfBalance(r) ==
    lookupsOfTotal(r) + (IF r.incomeCurrency # r.defaultCurrency THEN 1 ELSE 0)
lookupsOfPass(r) == lookupsOfTotal(r) + lookupsOfBalance(r)

\* The effect runs again for a new render while the run of an earlier render
\* is still awaiting its balance (nothing cancels that run), and the new run
\* has fewer requests to await than the earlier one has left: it publishes
\* its total and its balance first.
updateCalculationsOvertaking ==
    /\ calcPending /\ IsSome(pass)
    /\ isDBInitialized
    /\ lookupsOfPass(render) < lookupsOfBalance(Get(pass))
    /\ calcPending' = FALSE
    /\ totalExpenses' = calculateTotalExpenses(render)
    /\ remainingBalance' = calculateRemainingBalance(render)
    /\ lastPass' = passDone(render)
    /\ lastOp' = noOp("updateCalculationsOvertaking")
    /\ lastConvert' = None
    /\ UNCHANGED <<pass, awaited>>
    /\ UNCHANGED <<storeVars, initPc, isDBInitialized, income, expenses, categories,
                   defaultCurrency, incomeCurrency, exchangeRate, incomeMonthStart, dmVars, immVars>>

\* The income editor: handleIncomeUpdate stores the number typed into the
\* input and shows it.
IncomeInputs == {Num(100)}

handleIncomeUpdate ==
    /\ isDBInitialized
    /\ \E newIncome \in IncomeInputs :
        /\ dbSettings' = [dbSettings EXCEPT !.income = Some(newIncome)]
        /\ income' = newIncome
        /\ calcPending' = (calcPending \/ newIncome # income)
    /\ ends("handleIncomeUpdate", TRUE, None, "")
    /\ UNCHANGED <<dbVersion, db, dbExpenses, dbCategories, dbExchangeRates, initPc,
                   isDBInitialized, expenses, categories, defaultCurrency, incomeCurrency,
                   exchangeRate, incomeMonthStart, totalExpenses, remainingBalance,
                   dmVars, immVars>>

\* The income editor's currency select (line 370): onValueChange is the React
\* state setter; nothing is stored.
selectIncomeCurrency ==
    /\ isDBInitialized
    /\ \E currency \in Currencies :
        /\ incomeCurrency' = currency
        /\ calcPending' = (calcPending \/ currency # incomeCurrency)
    /\ ends("selectIncomeCurrency", TRUE, None, "")
    /\ UNCHANGED <<storeVars, initPc, isDBInitialized, income, expenses, categories,
                   defaultCurrency, exchangeRate, incomeMonthStart, totalExpenses,
                   remainingBalance, dmVars, immVars>>

\* ---------------------------------------------------- a convertCurrency call
\* A caller of the exported convertCurrency awaits its result.
convertCall ==
    /\ \E amount \in ConvertAmounts, fromCurrency \in CurrencyCodes, toCurrency \in CurrencyCodes :
        lastConvert' = Some([amount |-> amount, fromCurrency |-> fromCurrency,
                             toCurrency |-> toCurrency,
                             result |-> convertCurrency(amount, fromCurrency, toCurrency)])
    /\ lastOp' = noOp("convertCall")
    /\ lastPass' = None
    /\ UNCHANGED <<pass, awaited>>
    /\ UNCHANGED <<storeVars, uiVars, dmVars, immVars>>

\* A caller converts an amount to UAH and, when that resolved, the result
\* back to USD, with no write to the store in between.
convertThereAndBack ==
    /\ \E amount \in ConvertAmounts :
        LET there == convertCurrency(amount, USD, UAH)
        IN  lastConvert' =
                Some([amount |-> amount, fromCurrency |-> USD, toCurrency |-> UAH,
                      result |-> there,
                      back |-> IF there.status = "ok"
                               THEN Some(convertCurrency(Get(there.value), UAH, USD))
                               ELSE None])
    /\ lastOp' = noOp("convertThereAndBack")
    /\ lastPass' = None
    /\ UNCHANGED <<pass, awaited>>
    /\ UNCHANGED <<storeVars, uiVars, dmVars, immVars>>

\* ------------------------------------------------------ a store-function call
\* The calls a component may make, each with what its promise settles to.
expTaxiEdited == [expTaxi EXCEPT !.amount = Num(20)]
StoreCalls ==
    { [name |-> "getExpenses", outcome |-> get],
      [name |-> "getIncome", outcome |-> get],
      [name |-> "getLatestExchangeRate", outcome |-> get],
      [name |-> "addExpense", outcome |-> addExpense(expTaxi)],
      [name |-> "updateExpense", outcome |-> updateExpense(expTaxiEdited)],
      [name |-> "deleteExpense", outcome |-> deleteExpense(expTaxi.id)],
      [name |-> "addCategory", outcome |-> addCategory(catTravel)],
      [name |-> "updateCategory", outcome |-> updateCategory(catTravel)],
      [name |-> "deleteCategory", outcome |-> deleteCategory(catTravel.id)],
      [name |-> "addExchangeRate", outcome |-> addExchangeRate(rateNew)],
      [name |-> "deleteExchangeRate", outcome |-> deleteExchangeRateById(rateNew.id)],
      [name |-> "setIncome", outcome |-> setIncome(Num(100))],
      [name |-> "setIncomeCurrency", outcome |-> setIncomeCurrency(UAH)],
      [name |-> "setDefaultCurrency", outcome |-> setDefaultCurrency(UAH)],
      [name |-> "setIncomeMonthStart", outcome |-> setIncomeMonthStart(toISOString(0))],
      [name |-> "setPreviousIncomeMonthStart",
       outcome |-> setPreviousIncomeMonthStart(toISOString(0))] }
StoreFunctions == {c.name : c \in StoreCalls}

\* A caller awaits one store function; a rejection reaches its catch block.
storeCall ==
    /\ \E c \in StoreCalls :
        /\ settles(c.outcome)
        /\ ends(c.name, ~c.outcome.rejected,
                IF c.outcome.rejected THEN Some(c.outcome.error) ELSE None, "")
    /\ UNCHANGED <<uiVars, dmVars, immVars>>

\* ExpenseList.getCategoryName: the name found in the list of categories the
\* component was handed, else "Unknown".
categoryName(list, categoryId) ==
    IF \E i \in 1..Len(list) : list[i].id = categoryId
    THEN list[CHOOSE i \in 1..Len(list) : list[i].id = categoryId].name
    ELSE "Unknown"
getCategoryName(categoryId) == categoryName(categories, categoryId)

\* CategoryManager.handleDelete, the confirm() accepted: deleteCategory, then
\* onCategoriesChanged (FinanceTracker.refreshData) and the toast.
CategoryManager_handleDelete ==
    /\ isDBInitialized
    /\ \E id \in {categories[i].id : i \in 1..Len(categories)} :
        /\ settles(deleteCategory(id))
        /\ ends("CategoryManager.handleDelete", TRUE, Some(id), "Category deleted")
    /\ refreshData
    /\ UNCHANGED <<dmVars, immVars>>

\* The page is loaded again: the database stays, db.ts's handle and the React
\* state start anew.
reload ==
    /\ db = "open"
    /\ db' = "null"
    /\ initPc' = "initDB" /\ isDBInitialized' = FALSE
    /\ income' = Num(0) /\ expenses' = <<>> /\ categories' = <<>>
    /\ defaultCurrency' = USD /\ incomeCurrency' = USD
    /\ exchangeRate' = None /\ incomeMonthStart' = None
    /\ totalExpenses' = Num(0) /\ remainingBalance' = Num(0)
    /\ calcPending' = TRUE
    /\ showImportDialog' = FALSE /\ importError' = None /\ importData' = None
    /\ immMounted' = FALSE /\ immIncomeMonthStart' = None /\ immPreviousIncomeMonthStart' = None
    /\ immPending' = None
    /\ pass' = None /\ lastPass' = None /\ lastConvert' = None
    /\ awaited' = noAwaited
    /\ lastOp' = noOp("mount")
    /\ UNCHANGED <<dbVersion, dbExpenses, dbCategories, dbExchangeRates, dbSettings, download>>

\* Databases left by the version-1 schema (expenses, categories, settings):
\* the default categories, and what the user had stored.
Version1Databases ==
    { [version |-> 1, expenses |-> e, categories |-> defaultCategories, settings |-> st] :
        e \in {{}, {expPills}},
        st \in {noSettings, [noSettings EXCEPT !.defaultCurrency = Some(UAH)]} }
noDatabase ==
    [version |-> 0, expenses |-> {}, categories |-> {}, settings |-> noSettings]

\* The page is opened on a browser profile with no database or with a
\* version-1 database.
InitStore ==
    /\ \E d \in {noDatabase} \cup Version1Databases :
        /\ dbVersion = d.version /\ dbExpenses = d.expenses
        /\ dbCategories = d.categories /\ dbSettings = d.settings
    /\ db = "null" /\ dbExchangeRates = {}
    /\ initPc = "initDB" /\ isDBInitialized = FALSE
    /\ income = Num(0) /\ expenses = <<>> /\ categories = <<>>
    /\ defaultCurrency = USD /\ incomeCurrency = USD
    /\ exchangeRate = None /\ incomeMonthStart = None
    /\ totalExpenses = Num(0) /\ remainingBalance = Num(0)
    /\ calcPending = TRUE
    /\ showImportDialog = FALSE /\ importError = None /\ importData = None
    /\ download = None
    /\ immMounted = FALSE /\ immIncomeMonthStart = None /\ immPreviousIncomeMonthStart = None
    /\ immPending = None
    /\ pass = None
    /\ awaited = noAwaited
    /\ lastPass = None
    /\ lastConvert = None
    /\ lastOp = noOp("mount")

\* ------------------------------------------------------------ specifications
initialize ==
    \/ initDB
    \/ initSetIsDBInitialized
    \/ initGetIncome
    \/ initGetExpenses
    \/ initGetCategories
    \/ initGetDefaultCurrency
    \/ initGetIncomeCurrency
    \/ initGetLatestExchangeRate
    \/ initGetIncomeMonthStart

\* Import and export.
Next ==
    \/ initialize
    \/ handleExport
    \/ openFreshProfile
    \/ handleFileSelect
    \/ handleImport

Spec == Init /\ [][Next]_vars

\* Conversions against a store whose rates change.
NextConvert ==
    \/ initDB
    \/ initSetIsDBInitialized
    \/ handleExchangeRateUpdate
    \/ deleteExchangeRate
    \/ handleFileSelect
    \/ handleImport
    \/ convertCall

SpecConvert == Init /\ [][NextConvert]_vars

\* The dashboard's totals: expenses are entered and the period start is moved
\* while the page loads and afterwards.
NextTotals ==
    \/ initialize
    \/ handleSubmit
    \/ loadIncomeMonthData
    \/ handleStartNewIncomeMonth
    \/ rolloverCurrent
    \/ updateCalculations

SpecTotals == Init /\ [][NextTotals]_vars

\* The dashboard pass with its awaits: expenses are entered and the stored
\* rate is deleted before the pass, and between its total and its balance.
NextPass ==
    \/ initialize
    \/ handleSubmit
    \/ deleteExchangeRate
    \/ updateCalculationsTotal
    \/ updateCalculationsBalance

SpecPass == Init /\ [][NextPass]_vars

\* The income: it is edited and its currency selected while expenses are
\* entered and the stored rate is deleted; every pass runs undisturbed.
NextIncome ==
    \/ initialize
    \/ handleSubmit
    \/ handleIncomeUpdate
    \/ selectIncomeCurrency
    \/ deleteExchangeRate
    \/ updateCalculations

SpecIncome == Init /\ [][NextIncome]_vars

\* The income period: the database opens, the settings tab is shown and the
\* period is rolled over while expenses are entered.
NextRollover ==
    \/ initDB
    \/ initSetIsDBInitialized
    \/ handleSubmit
    \/ loadIncomeMonthData
    \/ handleStartNewIncomeMonth
    \/ handleDateSelect
    \/ rolloverCurrent
    \/ rolloverPreviousRejected
    \/ rolloverCurrentRejected

SpecRollover == Init /\ [][NextRollover]_vars

\* Imports of hand-edited files, with delete requests that may fail.
NextImport ==
    \/ initDB
    \/ initSetIsDBInitialized
    \/ handleFileSelectHandEdited
    \/ handleImport
    \/ handleImportDeleteRejected

SpecImport == Init /\ [][NextImport]_vars

\* Store functions called directly, before and after initDB.
NextStore ==
    \/ initDB
    \/ initSetIsDBInitialized
    \/ storeCall
    \/ convertCall

SpecStore == Init /\ [][NextStore]_vars

\* The database is opened again and again, first on a new or a version-1
\* database.
NextUpgrade ==
    \/ initialize
    \/ handleCurrencyChange
    \/ reload

SpecUpgrade == InitStore /\ [][NextUpgrade]_vars

\* Categories are deleted while expenses refer to them.
NextCategories ==
    \/ initDB
    \/ initSetIsDBInitialized
    \/ handleSubmit
    \/ CategoryManager_handleDelete

SpecCategories == Init /\ [][NextCategories]_vars

\* Rates are entered in the settings and arrive in imported files.
NextRates ==
    \/ initDB
    \/ initSetIsDBInitialized
    \/ handleExchangeRateUpdate
    \/ handleFileSelectHandEdited
    \/ handleImport

SpecRates == Init /\ [][NextRates]_vars

\* Amounts are converted there and back against the rates entered.
NextRoundTrip ==
    \/ initDB
    \/ initSetIsDBInitialized
    \/ handleExchangeRateUpdate
    \/ deleteExchangeRate
    \/ convertThereAndBack

SpecRoundTrip == Init /\ [][NextRoundTrip]_vars

\* Rates are entered while passes are running.
NextOneRate ==
    \/ initDB
    \/ initSetIsDBInitialized
    \/ loadIncomeMonthData
    \/ handleSubmit
    \/ handleExchangeRateUpdate
    \/ updateCalculationsTotal
    \/ updateCalculationsBalance

SpecOneRate == Init /\ [][NextOneRate]_vars

\* The dashboard changes while a pass is running.
NextStale ==
    \/ initDB
    \/ initSetIsDBInitialized
    \/ loadIncomeMonthData
    \/ handleSubmit
    \/ handleCurrencyChange
    \/ updateCalculationsTotal
    \/ updateCalculationsBalance
    \/ updateCalculationsOvertaking

SpecStale == Init /\ [][NextStale]_vars

\* The period is moved while IncomeMonthManager is loading.
NextFirstUse ==
    \/ initDB
    \/ initSetIsDBInitialized
    \/ handleSubmit
    \/ loadIncomeMonthDataRead
    \/ loadIncomeMonthDataDefault
    \/ handleStartNewIncomeMonth
    \/ handleDateSelect
    \/ rolloverCurrent

SpecFirstUse == Init /\ [][NextFirstUse]_vars

\* The default currency is changed while the charts are refreshing.
NextCharts ==
    \/ initDB
    \/ initSetIsDBInitialized
    \/ handleSubmit
    \/ handleCurrencyChange
    \/ refreshDataRead
    \/ refreshDataWrite

SpecCharts == Init /\ [][NextCharts]_vars

\* ---------------------------------------------------------------- properties
\* A store as initDB leaves a database it has just created.
freshStore ==
    /\ dbExpenses = {}
    /\ dbCategories = defaultCategories
    /\ \E now \in Times : dbExchangeRates = {defaultRate(now)}
    /\ dbSettings = [noSettings EXCEPT !.defaultCurrency = Some(USD)]

\* The step is a handleImport that ended in its success outcome.
importSucceeded == lastOp'.op = "handleImport" /\ lastOp'.ok

\* C1: importing an exported document into a freshly initialized store leaves
\* the three collections equal, as sets, to the exported ones and the
\* settings equal to the exported settings.
C1_RoundTrip ==
    [][(importSucceeded /\ IsSome(download) /\ importData = download /\ freshStore)
        => LET doc == Get(download)
               S == Get(doc.settings)
           IN  /\ dbExpenses' = Range(Get(doc.expenses))
               /\ dbCategories' = Range(Get(doc.categories))
               /\ dbExchangeRates' = Range(Get(doc.exchangeRates))
               /\ dbSettings' = [income |-> Some(S.income),
                                 incomeCurrency |-> Some(S.incomeCurrency),
                                 defaultCurrency |-> Some(S.defaultCurrency),
                                 incomeMonthStart |-> S.incomeMonthStart,
                                 previousIncomeMonthStart |-> S.previousIncomeMonthStart]]_vars

\* The records of S whose key no record of the imported array has.
absentFrom(S, field) == {r \in S : \A i \in 1..Len(Get(field)) : Get(field)[i].id # r.id}

\* C2: after a successful handleImport no record that was stored before the
\* import and is absent from the imported document remains in its
\* collection, whatever the document (an empty array included).
C2_FullReplace ==
    [][importSucceeded
        => LET doc == Get(importData)
           IN  /\ absentFrom(dbCategories, doc.categories) \cap dbCategories' = {}
               /\ absentFrom(dbExchangeRates, doc.exchangeRates) \cap dbExchangeRates' = {}
               /\ absentFrom(dbExpenses, doc.expenses) \cap dbExpenses' = {}]_vars

\* The structural validation of an import document: it is JSON and its four
\* top-level fields are present, the three collections as arrays.
failsStructuralValidation(d) ==
    \/ d.text # "json"
    \/ ~IsSome(d.expenses) \/ ~IsSome(d.categories) \/ ~IsSome(d.exchangeRates)
    \/ ~IsSome(d.settings)

\* C3: when the document read by handleFileSelect or by handleImport fails the
\* structural validation, the step writes nothing to the store and the dialog
\* reports the failure (the invalid-format message; handleImport's error).
C3_AbortBeforeMutate ==
    [][/\ (/\ lastOp'.op = "handleFileSelect"
           /\ Get(lastOp'.content).jsonFile /\ Get(lastOp'.content).text # ""
           /\ failsStructuralValidation(Get(lastOp'.content)))
          => /\ storeVars' = storeVars
             /\ importData' = importData
             /\ importError' = Some(invalidFormatMessage)
       /\ (/\ lastOp'.op = "handleImport"
           /\ IsSome(importData) /\ failsStructuralValidation(Get(importData)))
          => /\ storeVars' = storeVars
             /\ ~lastOp'.ok
             /\ importError' = Some("Import failed: Invalid import data")]_vars

\* C3 witness: a JSON file without a categories array was selected while the
\* store held data, and the dialog shows the invalid-format message.
C3_Witness ==
    /\ lastOp.op = "handleFileSelect"
    /\ Get(lastOp.content).text = "json" /\ ~IsSome(Get(lastOp.content).categories)
    /\ importError = Some(invalidFormatMessage)
    /\ showImportDialog
    /\ dbCategories = defaultCategories

\* The convertCurrency call just made (no handler has run since).
called == IsSome(lastConvert)
call == Get(lastConvert)
crossCurrency(f, t) == f # t
supportedPair(f, t) == (f = USD /\ t = UAH) \/ (f = UAH /\ t = USD)

\* C4: convertCurrency(a, c, c) resolves to exactly a without an exchange-rate
\* lookup, in every state of the store: no database handle, no rate stored.
C4_SameCurrencyIdentity ==
    /\ \A a \in ConvertAmounts, c \in CurrencyCodes :
          convertCurrency(a, c, c) =
              [status |-> "ok", value |-> Some(a), error |-> "", lookups |-> 0]
    /\ (called /\ call.fromCurrency = call.toCurrency)
          => /\ call.result.status = "ok"
             /\ call.result.value = Some(call.amount)
             /\ call.result.lookups = 0

\* C4 witness: a same-currency call made before initDB (no handle, no rates)
\* returned its amount.
C4_Witness ==
    /\ called /\ call.fromCurrency = UAH /\ call.toCurrency = UAH
    /\ db = "null" /\ dbExchangeRates = {}
    /\ call.result.value = Some(call.amount)

\* C5: while no exchange rate is stored, every conversion between two
\* different currencies fails with an error and yields no amount.
C5_RateUnavailable ==
    dbExchangeRates = {}
        => /\ \A a \in ConvertAmounts, f \in CurrencyCodes, t \in CurrencyCodes :
                 crossCurrency(f, t)
                    => /\ convertCurrency(a, f, t).status = "error"
                       /\ convertCurrency(a, f, t).value = None
           /\ (called /\ crossCurrency(call.fromCurrency, call.toCurrency))
                 => call.result.status = "error" /\ call.result.value = None

\* C5 witness: convert(100, USD, UAH) on an open database with no rate failed
\* with "Exchange rate not available".
C5_Witness ==
    /\ called /\ call.amount = Num(100) /\ call.fromCurrency = USD /\ call.toCurrency = UAH
    /\ db = "open" /\ dbExchangeRates = {}
    /\ call.result.status = "error"
    /\ call.result.error = "Exchange rate not available"

\* C6: a conversion between two different currencies that are not the pair
\* USD/UAH signals an error and returns no amount.
C6_UnsupportedPairFails ==
    (called /\ crossCurrency(call.fromCurrency, call.toCurrency)
            /\ ~supportedPair(call.fromCurrency, call.toCurrency))
        => call.result.status = "error" /\ call.result.value = None

\* v = a * r and v = a / r, by cross multiplication.
isProduct(v, a, r) == v[1] * a[2] * r[2] = a[1] * r[1] * v[2]
isQuotient(v, a, r) == v[1] * r[1] * a[2] = a[1] * r[2] * v[2]

\* C7: with latest rate r, USD -> UAH returns the amount multiplied by r and
\* UAH -> USD the amount divided by r, for every amount.
C7_ConversionDirection ==
    (db = "open" /\ dbExchangeRates # {})
        => LET r == Get(getLatestExchangeRate.result).rate
           IN  /\ \A a \in ConvertAmounts :
                     /\ isProduct(Get(convertCurrency(a, USD, UAH).value), a, r)
                     /\ isQuotient(Get(convertCurrency(a, UAH, USD).value), a, r)
               /\ (called /\ call.fromCurrency = USD /\ call.toCurrency = UAH)
                     => isProduct(Get(call.result.value), call.amount, r)
               /\ (called /\ call.fromCurrency = UAH /\ call.toCurrency = USD)
                     => isQuotient(Get(call.result.value), call.amount, r)

\* C7 witness: 100 USD at 1 USD = 38.5 UAH came out as 3850 UAH.
C7_Witness ==
    /\ called /\ call.amount = Num(100) /\ call.fromCurrency = USD /\ call.toCurrency = UAH
    /\ db = "open" /\ dbExchangeRates # {}
    /\ Get(getLatestExchangeRate.result).rate = <<77, 2>>
    /\ call.result.value = Some(Num(3850))

\* C8: on an open database getLatestExchangeRate resolves null exactly when
\* no rate is stored, and otherwise a stored record no stored record is dated
\* after; a conversion between USD and UAH uses that record's rate.
C8_LatestRateWins ==
    db = "open"
        => LET latest == getLatestExchangeRate.result
           IN  /\ ~getLatestExchangeRate.rejected
               /\ (latest = None) <=> (dbExchangeRates = {})
               /\ IsSome(latest)
                     => /\ Get(latest) \in dbExchangeRates
                        /\ \A x \in dbExchangeRates :
                               NewDate(Get(latest).date) >= NewDate(x.date)
               /\ (called /\ IsSome(latest) /\ call.fromCurrency = USD /\ call.toCurrency = UAH)
                     => isProduct(Get(call.result.value), call.amount, Get(latest).rate)
               /\ (called /\ IsSome(latest) /\ call.fromCurrency = UAH /\ call.toCurrency = USD)
                     => isQuotient(Get(call.result.value), call.amount, Get(latest).rate)

\* C8 witness: the rate entered last is dated after the default rate, which
\* precedes it in key order, and a UAH -> USD call has just used it.
C8_Witness ==
    /\ db = "open"
    /\ \E old \in dbExchangeRates, new \in dbExchangeRates :
          /\ old.id < new.id /\ NewDate(old.date) < NewDate(new.date)
          /\ old.rate # new.rate
          /\ getLatestExchangeRate.result = Some(new)
          /\ called /\ call.fromCurrency = UAH /\ call.toCurrency = USD
          /\ isQuotient(Get(call.result.value), call.amount, new.rate)

\* The aggregation pass just made (no handler has run since).
passed == IsSome(lastPass)

\* C9: with a period start set, the pass counts an expense, and the list
\* badges it Current, exactly when its date is at or after the start.
C9_PeriodBoundary ==
    IsSome(incomeMonthStart)
        => \A i \in 1..Len(expenses) :
              LET current == NewDate(expenses[i].date) >= Get(incomeMonthStart)
              IN  /\ passed => ((i \in Get(lastPass).included) <=> current)
                  /\ (periodBadge(expenses[i], incomeMonthStart) = "Current") <=> current

\* C9 witness: a pass counted the expense dated at the start and left out the
\* one dated one unit before it.
C9_Witness ==
    /\ passed /\ IsSome(incomeMonthStart)
    /\ \E i \in 1..Len(expenses), j \in 1..Len(expenses) :
          /\ NewDate(expenses[i].date) = Get(incomeMonthStart)
          /\ NewDate(expenses[j].date) = Get(incomeMonthStart) - 1
          /\ i \in Get(lastPass).included
          /\ j \notin Get(lastPass).included
          /\ periodBadge(expenses[i], incomeMonthStart) = "Current"
          /\ periodBadge(expenses[j], incomeMonthStart) = "Previous"

\* C10: a pass made while the period start is unset counts every expense.
C10_NoPeriodIncludesAll ==
    (passed /\ ~IsSome(incomeMonthStart))
        => Get(lastPass).included = 1..Len(expenses)

\* The pass that has just published its total, and the pass that has just
\* published its balance: the render it worked on.
totalPublished == lastOp.op = "updateCalculationsTotal" /\ IsSome(pass)
balancePublished == lastOp.op = "updateCalculationsBalance" /\ IsSome(lastPass)

\* The positions of render r that lie in the period, and those of them whose
\* amount can be brought to the default currency with the rates now stored.
inPeriodOf(r) == {i \in 1..Len(r.expenses) : inPeriod(r.expenses[i], r.incomeMonthStart)}
convertsOf(r) ==
    {i \in inPeriodOf(r) :
        \/ r.expenses[i].currency = r.defaultCurrency
        \/ convertCurrency(r.expenses[i].amount, r.expenses[i].currency,
                           r.defaultCurrency).status = "ok"}
amountOf(r, i) ==
    IF r.expenses[i].currency = r.defaultCurrency THEN r.expenses[i].amount
    ELSE Get(convertCurrency(r.expenses[i].amount, r.expenses[i].currency,
                             r.defaultCurrency).value)

RECURSIVE sumOf(_, _)
sumOf(r, I) ==
    IF I = {} THEN Num(0)
    ELSE LET i == CHOOSE j \in I : TRUE
         IN  Plus(amountOf(r, i), sumOf(r, I \ {i}))

\* C11 (per-item failure isolation): when a pass has computed its total, an
\* in-period expense whose conversion failed has added nothing to it:
\* totalExpenses is the sum of the (converted) amounts of the in-period
\* expenses whose conversion succeeded or was not needed.
C11_FailureIsolation ==
    totalPublished => totalExpenses = sumOf(Get(pass), convertsOf(Get(pass)))

\* A pass has just totalled a render in which one in-period expense could
\* not be converted and another one counted.
C11_Witness ==
    /\ totalPublished
    /\ inPeriodOf(Get(pass)) \ convertsOf(Get(pass)) # {}
    /\ convertsOf(Get(pass)) # {}
    /\ Truthy(totalExpenses)

\* The income of render r cannot be brought to the default currency with the
\* rates now stored.
incomeConversionFails(r) ==
    /\ r.incomeCurrency # r.defaultCurrency
    /\ convertCurrency(r.income, r.incomeCurrency, r.defaultCurrency).status # "ok"

\* C12 (income conversion fallback): when a pass has run, the income is in
\* another currency than the default one and its conversion failed,
\* remainingBalance is the raw income minus totalExpenses.
C12_IncomeFallback ==
    (passed /\ incomeConversionFails(Get(lastPass).render))
        => remainingBalance = Minus(Get(lastPass).render.income, totalExpenses)

\* Such a pass, with a non-zero income and a non-zero total.
C12_Witness ==
    /\ passed
    /\ incomeConversionFails(Get(lastPass).render)
    /\ Truthy(Get(lastPass).render.income)
    /\ Truthy(totalExpenses)

\* C13 (balance formula): when a pass has published its balance,
\* remainingBalance is the income in the default currency minus the
\* totalExpenses that the same pass published, whatever was stored while the
\* pass was running.
C13_BalanceFormula ==
    balancePublished
        => remainingBalance = Minus(incomeInDefaultCurrency(Get(lastPass).render), totalExpenses)

\* The rollover handlers, and the step in which one of them stores the new
\* start and returns.
rolloverHandlers == {"handleStartNewIncomeMonth", "handleDateSelect"}
rolledOver ==
    /\ IsSome(immPending)
    /\ lastOp'.op = Get(immPending).op
    /\ lastOp'.ok

C15_RolloverAtomic ==
    [][~(/\ IsSome(immPending)
         /\ lastOp'.op = Get(immPending).op
         /\ ~lastOp'.ok)]_vars

\* C16 (first-use default is persisted): once initialize has run to its
\* end, an incomeMonthStart is stored: the saved one, or the first day of the
\* month that initialize chose because none was saved.
C16_FirstUseDefaultPersisted ==
    initPc = "done" => IsSome(getIncomeMonthStart)

\* C17 (export then import reproduces the settings): when the file that
\* handleExport downloaded from a store A is imported successfully into a
\* store B, B's five settings are those of the document, which are A's; a
\* period start that was unset in A (null in the document) is unset in B.
C17_SettingsRoundTrip ==
    [][(importSucceeded /\ IsSome(download) /\ importData = download) =>
          LET A == Get(Get(download).settings)
          IN  /\ dbSettings'.income = Some(A.income)
              /\ dbSettings'.incomeCurrency = Some(A.incomeCurrency)
              /\ dbSettings'.defaultCurrency = Some(A.defaultCurrency)
              /\ dbSettings'.incomeMonthStart = A.incomeMonthStart
              /\ dbSettings'.previousIncomeMonthStart = A.previousIncomeMonthStart]_vars

\* The four structural conditions on a parsed document.
wellFormed(d) ==
    /\ IsSome(d.expenses)
    /\ IsSome(d.categories)
    /\ IsSome(d.exchangeRates)
    /\ IsSome(d.settings) /\ Get(d.settings).isObject

\* C18 (structural validation): a file that handleFileSelect accepted for
\* import (parseImportedData returned its document) has its three
\* collections present as arrays and its settings present as an object.
C18_StructuralValidation ==
    (lastOp.op = "handleFileSelect" /\ lastOp.ok) => wellFormed(Get(lastOp.content))

\* C19 (partial import failure is surfaced): a handleImport during which a
\* delete request failed ends in its failure outcome, not with the toast
\* "Import successful".
C19_DeleteFailureSurfaced ==
    (lastOp.op = "handleImport" /\ IsSome(lastOp.content))
        => (~lastOp.ok /\ lastOp.toast # "Import successful")

\* The step is a handleImport, with no failing delete, that failed while it
\* was replacing the exchange rates or the expenses.
failedLate ==
    /\ lastOp'.op = "handleImport" /\ ~lastOp'.ok /\ ~IsSome(lastOp'.content)
    /\ importError' \in {Some("Import failed: exchange rates"),
                         Some("Import failed: expenses")}

\* C20 (no rollback on partial failure): when handleImport fails while
\* replacing a later collection, the settings it wrote stay as imported and
\* a collection whose replacement was completed holds imported records only;
\* nothing is put back to what it was before the import.
C20_NoRollback ==
    [][failedLate =>
          LET d == Get(importData)
              st == Get(d.settings)
          IN  /\ dbSettings'.income = Some(st.income)
              /\ dbSettings'.incomeCurrency = Some(st.incomeCurrency)
              /\ dbSettings'.defaultCurrency = Some(st.defaultCurrency)
              /\ IsSome(st.incomeMonthStart)
                    => dbSettings'.incomeMonthStart = st.incomeMonthStart
              /\ Len(Get(d.categories)) > 0
                    => (dbCategories' # {} /\ dbCategories' \subseteq Range(Get(d.categories)))
              /\ (importError' = Some("Import failed: expenses")
                      /\ Len(Get(d.exchangeRates)) > 0)
                    => (dbExchangeRates' # {}
                        /\ dbExchangeRates' \subseteq Range(Get(d.exchangeRates)))]_vars

\* An import has failed at the exchange rates of a document whose settings
\* and categories differ from what was stored before: the store holds the
\* document's income and one of its categories, and none of the default ones.
C20_Witness ==
    /\ lastOp.op = "handleImport" /\ ~lastOp.ok /\ ~IsSome(lastOp.content)
    /\ importError = Some("Import failed: exchange rates")
    /\ IsSome(importData)
    /\ dbSettings.income = Some(Get(Get(importData).settings).income)
    /\ dbCategories # {}
    /\ dbCategories \subseteq Range(Get(Get(importData).categories))
    /\ dbCategories \cap defaultCategories = {}

\* The four object stores are as they were.
storesUnchanged == UNCHANGED <<dbExpenses, dbCategories, dbExchangeRates, dbSettings>>

\* C21: a store function (a get, add, put or delete on any collection) or a
\* convertCurrency between two different currencies that is called while
\* db.ts has no database handle rejects with an error the caller receives,
\* in the one step of the call, and the object stores stay as they were.
C21_StorageUnavailable ==
    [][ db = "null"
          => /\ lastOp'.op \in StoreFunctions
                  => /\ ~lastOp'.ok
                     /\ lastOp'.content = Some("Database not initialized")
                     /\ storesUnchanged
             /\ (IsSome(lastConvert')
                    /\ crossCurrency(Get(lastConvert').fromCurrency, Get(lastConvert').toCurrency))
                  => /\ Get(lastConvert').result.status = "error"
                     /\ Get(lastConvert').result.value = None
                     /\ storesUnchanged ]_vars

\* C21 witness: addExpense was called before initDB had set the handle; it
\* was rejected and no expense is stored.
C21_Witness ==
    /\ db = "null"
    /\ lastOp.op = "addExpense" /\ ~lastOp.ok
    /\ lastOp.content = Some("Database not initialized")
    /\ dbExpenses = {}

\* C22: initDB on a database of version 1 or 2 leaves it at version 2 with
\* every expense, every category and every setting that was stored (the
\* stored defaultCurrency among them) as it was, and on a version-2 database
\* it changes no collection at all.
C22_UpgradeNonDestructive ==
    [][ (initPc = "initDB" /\ initPc' # "initDB" /\ dbVersion >= 1)
          => /\ dbVersion' = 2
             /\ dbExpenses' = dbExpenses
             /\ dbCategories' = dbCategories
             /\ \A key \in DOMAIN dbSettings :
                    IsSome(dbSettings[key]) => dbSettings'[key] = dbSettings[key]
             /\ dbVersion = 2 => storesUnchanged ]_vars

\* C23: deleting a category removes that category record and nothing else:
\* the expenses store is unchanged, so the expenses of the deleted category
\* keep its id, and the expense list shows them under the name "Unknown".
C23_NoCascade ==
    [][ lastOp'.op = "CategoryManager.handleDelete"
          => LET id == Get(lastOp'.content)
             IN  /\ dbExpenses' = dbExpenses
                 /\ dbCategories' = {c \in dbCategories : c.id # id}
                 /\ \A i \in 1..Len(expenses') :
                        expenses'[i].categoryId = id
                            => /\ expenses'[i] \in dbExpenses
                               /\ categoryName(categories', expenses'[i].categoryId) = "Unknown" ]_vars

\* C23 witness: the category of a stored expense was deleted; the expense is
\* still stored and listed, and its category shows as "Unknown".
C23_Witness ==
    /\ lastOp.op = "CategoryManager.handleDelete"
    /\ \E i \in 1..Len(expenses) :
          /\ expenses[i].categoryId = Get(lastOp.content)
          /\ expenses[i] \in dbExpenses
          /\ getCategoryName(expenses[i].categoryId) = "Unknown"

\* C24: after any sequence of initialization, rate entries and imports, every
\* stored exchange rate is greater than zero, and a rate entry that was
\* refused (empty, not a number, zero or negative) has written nothing.
C24_RatesPositive ==
    /\ \A r \in dbExchangeRates : r.rate[1] > 0
    /\ (lastOp.op = "handleExchangeRateUpdate" /\ ~lastOp.ok)
          => lastOp.toast = "Invalid exchange rate"

convertedAt(amount, fromCurrency, toCurrency, rate) ==
    IF fromCurrency = USD /\ toCurrency = UAH THEN Times2(amount, rate)
    ELSE IF fromCurrency = UAH /\ toCurrency = USD THEN Over(amount, rate)
    ELSE amount

RECURSIVE totalAt(_, _, _)
totalAt(r, i, rate) ==
    IF i > Len(r.expenses) THEN Num(0)
    ELSE IF inPeriod(r.expenses[i], r.incomeMonthStart)
    THEN Plus(convertedAt(r.expenses[i].amount, r.expenses[i].currency,
                          r.defaultCurrency, rate),
              totalAt(r, i + 1, rate))
    ELSE totalAt(r, i + 1, rate)
incomeAt(r, rate) == convertedAt(r.income, r.incomeCurrency, r.defaultCurrency, rate)

\* C26: a pass that has finished made all its conversions at one rate: there
\* is a stored rate (rates are only added here) at which the expenses of the
\* render add up to the published total and at which income minus expenses
\* is the published balance.
C26_OneRatePerPass ==
    balancePublished
        => \E x \in dbExchangeRates :
              /\ totalExpenses = totalAt(Get(lastPass).render, 1, x.rate)
              /\ remainingBalance =
                    Minus(incomeAt(Get(lastPass).render, x.rate),
                          totalAt(Get(lastPass).render, 1, x.rate))

\* C27: once every pass that was started has finished and none is due, the
\* displayed total and balance are those of the pass triggered last, the one
\* for the render now shown (the rates do not change here, so they are what
\* the two calculations give for this render).
C27_LastTriggeredPassWins ==
    (isDBInitialized /\ ~calcPending /\ pass = None)
        => /\ totalExpenses = calculateTotalExpenses(render)
           /\ remainingBalance = calculateRemainingBalance(render)

\* C28: when handleIncomeUpdate has saved the income, the income currency
\* shown in the editor (the one the user selected) is the stored
\* incomeCurrency setting, the value every later refreshData loads.
C28_IncomeCurrencyPersisted ==
    lastOp.op = "handleIncomeUpdate" => getIncomeCurrency = incomeCurrency

\* C29: the initial load of IncomeMonthManager found no period start; when it
\* gets to store its first-use default, a start that a handler of the user
\* has stored in the meantime (nothing else writes one) stays the stored
\* start.
C29_DefaultKeepsUserStart ==
    [][ (IsSome(awaited.load) /\ awaited'.load = None /\ IsSome(getIncomeMonthStart))
          => getIncomeMonthStart' = getIncomeMonthStart ]_vars

\* C30: the step in which ExpenseChartsExpenses.refreshData finishes leaves
\* the stored settings as they are, so a default currency saved while the
\* refresh was in flight is still the stored one.
C30_RefreshOnlyReads ==
    [][ (IsSome(awaited.charts) /\ awaited'.charts = None)
          => dbSettings' = dbSettings ]_vars

====
